---- MODULE Spec2Model ----
(***************************************************************************)
(* Model of the semantic-version utilities (src/utils/semantic-version.ts)  *)
(* and of the major-upgrade workflow of the package-json helper             *)
(* (hasNewMajorVersion, getSummary, promptForNewMajor, updateDependency).   *)
(*                                                                         *)
(* Strings are sequences of one-character strings, so that the regular     *)
(* expressions of the source are matched character by character.           *)
(* A call that throws yields Threw, a call that returns v yields            *)
(* Returned(v).                                                            *)
(***************************************************************************)
EXTENDS Integers, Sequences, FiniteSets, TLC

VARIABLES
    input,      \* argument(s) of the pure function under check
    output,     \* [ran, ret]: whether it was called, and what came out
    pc,         \* position of the upgrade attempt (promptForNewMajor)
    args,       \* arguments and collaborators' data of the attempt
    calls,      \* external calls made by the attempt, in order
    logged,     \* texts written to logger.log by the attempt
    answer,     \* what askForBoolean resolved to in the attempt, if it did
    content,    \* packageJsonContent of every package: the dependency maps
    saveCalls   \* number of saveJsonFile invocations

vars == <<input, output, pc, args, calls, logged, answer, content, saveCalls>>

pureVars == <<input, output>>
flowVars == <<pc, args, calls, logged, answer, content, saveCalls>>
attemptVars == <<pc, args, calls, logged, answer>>

----------------------------------------------------------------------------
(* Bounds *)

\* longest input text handed to the two regular expressions
MaxLen == 6
\* largest major, minor or patch number of the compared versions
MaxPart == 2
\* longest collection handed to getLargestSemanticVersion
MaxVersions == 3
\* largest major number of the versions handed to hasNewMajorVersion
MaxMajor == 3
\* longest changelog handed to getSummary
MaxEntries == 3
\* most saveJsonFile invocations in one run
MaxSaves == 2

----------------------------------------------------------------------------
(* Outcomes of a call *)

Threw == << >>
Returned(v) == <<v>>
IsReturned(r) == Len(r) = 1
ValueOf(r) == r[1]

NotRun == [ran |-> FALSE, fn |-> "none", ret |-> Threw]
Ran(f, r) == [ran |-> TRUE, fn |-> f, ret |-> r]

----------------------------------------------------------------------------
(* Characters and texts *)

DigitSeq == <<"0", "1", "2", "3", "4", "5", "6", "7", "8", "9">>
Digits == { DigitSeq[i] : i \in 1..10 }
\* the characters the regular expression atom "." does not match
LineTerminators == {"\n"}
\* the characters the checked input texts are made of: two digits, the dot,
\* a letter and a line terminator
Chars == {"0", "1", ".", "x", "\n"}

RECURSIVE TextsOfLen(_)
TextsOfLen(n) ==
    IF n = 0 THEN { << >> }
    ELSE { Append(t, c) : t \in TextsOfLen(n - 1), c \in Chars }

TextsUpTo(max) == UNION { TextsOfLen(n) : n \in 0..max }

Sub(str, i, n) == SubSeq(str, i, i + n - 1)

\* [0-9]+ starting at position i: the lengths it can take
DigitRuns(str, i) ==
    { n \in 1..(Len(str) - i + 1) : \A k \in i..(i + n - 1) : str[k] \in Digits }

\* the regular expression atom "." at position i
AnyCharAt(str, i) == i <= Len(str) /\ str[i] \notin LineTerminators

\* /([0-9]+).([0-9]+).([0-9]+)/ attempted at start position s: every way the
\* three groups can be cut, as <<la, lb, lc>>; anchored adds the trailing $
GroupCuts(str, s, anchored) ==
    UNION { UNION { { <<la, lb, lc>> :
                        lc \in { n \in DigitRuns(str, s + la + lb + 2) :
                                   anchored => s + la + lb + 2 + n - 1 = Len(str) } } :
                    lb \in { n \in DigitRuns(str, s + la + 1) :
                               AnyCharAt(str, s + la + 1 + n) } } :
            la \in { n \in DigitRuns(str, s) : AnyCharAt(str, s + n) } }

\* greedy quantifiers with backtracking: the first group as long as possible,
\* then the second, then the third
Greedy(cuts) ==
    CHOOSE t \in cuts :
        \A u \in cuts :
            \/ t[1] > u[1]
            \/ t[1] = u[1] /\ t[2] > u[2]
            \/ t[1] = u[1] /\ t[2] = u[2] /\ t[3] >= u[3]

\* String.prototype.match without the g flag: the leftmost start that matches;
\* << >> is the null result, otherwise <<[a, b, c]>> holds the captured groups
RegexMatch(str, anchored) ==
    LET starts == { s \in 1..Len(str) :
                      /\ anchored => s = 1
                      /\ GroupCuts(str, s, anchored) # {} }
    IN  IF starts = {} THEN << >>
        ELSE LET s == CHOOSE x \in starts : \A y \in starts : x <= y
                 t == Greedy(GroupCuts(str, s, anchored))
             IN  << [a |-> Sub(str, s, t[1]),
                     b |-> Sub(str, s + t[1] + 1, t[2]),
                     c |-> Sub(str, s + t[1] + t[2] + 2, t[3])] >>

DigitValue(c) == (CHOOSE i \in 1..10 : DigitSeq[i] = c) - 1

\* parseInt on a non-empty run of decimal digits
RECURSIVE parseInt(_)
parseInt(ds) ==
    IF Len(ds) = 0 THEN 0
    ELSE 10 * parseInt(SubSeq(ds, 1, Len(ds) - 1)) + DigitValue(ds[Len(ds)])

getExtractedSemanticVersion(path) ==
    LET match == RegexMatch(path, FALSE)
    IN  IF match = << >> THEN Threw
        ELSE Returned(match[1].a \o <<".">> \o match[1].b \o <<".">> \o match[1].c)

getParsedSemanticVersion(version) ==
    LET match == RegexMatch(version, TRUE)
    IN  IF match = << >> THEN Threw
        ELSE Returned([major |-> parseInt(match[1].a),
                       minor |-> parseInt(match[1].b),
                       patch |-> parseInt(match[1].c)])

\* a non-negative number in a template literal: its decimal digits
RECURSIVE ToText(_)
ToText(n) ==
    IF n < 10 THEN << DigitSeq[n + 1] >>
    ELSE Append(ToText(n \div 10), DigitSeq[(n % 10) + 1])

getSerializedSemanticVersion(version) ==
    ToText(version.major) \o <<".">> \o ToText(version.minor)
        \o <<".">> \o ToText(version.patch)

compareSemanticVersionSkippingMinor(a, b) ==
    IF a.major # b.major THEN a.major - b.major
    ELSE a.patch - b.patch

compareSemanticVersion(a, b) ==
    IF a.major # b.major THEN a.major - b.major
    ELSE IF a.minor # b.minor THEN a.minor - b.minor
    ELSE a.patch - b.patch

isLargerSemanticVersionOrEqual(version, compare) ==
    LET v == getParsedSemanticVersion(version.version)
        c == getParsedSemanticVersion(compare.version)
    IN  IF v = Threw \/ c = Threw THEN Threw
        ELSE Returned(compareSemanticVersion(ValueOf(v), ValueOf(c)) <= 0)

isLargerSemanticVersion(version, compare) ==
    LET v == getParsedSemanticVersion(version.version)
        c == getParsedSemanticVersion(compare.version)
    IN  IF v = Threw \/ c = Threw THEN Threw
        ELSE Returned(compareSemanticVersion(ValueOf(v), ValueOf(c)) < 0)

\* null / undefined, and a value that is there
Null == << >>
Some(v) == <<v>>

\* the loop of getLargestSemanticVersion from element i on
RECURSIVE LargestFrom(_, _, _)
LargestFrom(versions, i, largest) ==
    IF i > Len(versions) THEN Returned(largest)
    ELSE IF largest = Null
         THEN LargestFrom(versions, i + 1, Some(versions[i]))
         ELSE LET shouldReplace == isLargerSemanticVersion(largest[1], versions[i])
              IN  IF shouldReplace = Threw THEN Threw
                  ELSE LargestFrom(versions, i + 1,
                                   IF ValueOf(shouldReplace) THEN Some(versions[i])
                                   ELSE largest)

getLargestSemanticVersion(versions) == LargestFrom(versions, 1, Null)

\* a string in a condition: undefined and the empty string are falsy
Truthy(opt) == opt # Null /\ opt[1] # << >>

hasNewMajorVersionOrSame(latestVersion, existingVersion) ==
    LET existing == IF Truthy(existingVersion)
                    THEN getParsedSemanticVersion(existingVersion[1])
                    ELSE Returned(Null)
        latest == getParsedSemanticVersion(latestVersion)
    IN  IF existing = Threw \/ latest = Threw THEN Threw
        ELSE IF ValueOf(existing) = Null THEN Returned(FALSE)
        ELSE Returned(ValueOf(latest).major >= ValueOf(existing).major)

hasNewMajorVersion(latestVersion, existingVersion) ==
    LET existing == IF Truthy(existingVersion)
                    THEN getParsedSemanticVersion(existingVersion[1])
                    ELSE Returned(Null)
        latest == getParsedSemanticVersion(latestVersion)
    IN  IF existing = Threw \/ latest = Threw THEN Threw
        ELSE IF ValueOf(existing) = Null THEN Returned(FALSE)
        ELSE Returned(ValueOf(latest).major > ValueOf(existing).major)

\* Array.prototype.filter
RECURSIVE Filter(_, _)
Filter(seq, keep) ==
    IF seq = << >> THEN << >>
    ELSE LET rest == Filter(Tail(seq), keep)
         IN  IF keep[Head(seq)] THEN <<Head(seq)>> \o rest ELSE rest

\* the template literal of one breaking-change line, marked dim by fontDim
BreakingChangeLine(v) ==
    [dim |-> TRUE, text |-> v.version \o <<" ", "-", " ">> \o v.breakingChanges[1]]

getSummaryFromExistingMajor(packageName, newVersion, existingVersion, allEntries) ==
    LET new == getParsedSemanticVersion(newVersion)
        existing == getParsedSemanticVersion(existingVersion)
        entries == { allEntries[i] : i \in 1..Len(allEntries) }
    IN  IF new = Threw \/ existing = Threw THEN Threw
        ELSE IF \E v \in entries : getParsedSemanticVersion(v.version) = Threw THEN Threw
        ELSE LET newMajor == ValueOf(new).major
                 existingMajor == ValueOf(existing).major
                 relevant == [v \in entries |->
                     LET major == ValueOf(getParsedSemanticVersion(v.version)).major
                     IN  major >= existingMajor /\ major <= newMajor]
                 relevantVersions == Filter(allEntries, relevant)
                 noted == [v \in entries |-> Truthy(v.breakingChanges)]
                 withNotes == Filter(relevantVersions, noted)
             IN  Returned([packageName |-> packageName,
                           newVersion |-> newVersion,
                           breakingChanges |->
                               [i \in 1..Len(withNotes) |-> BreakingChangeLine(withNotes[i])]])

\* the summary text, as its header fields and the lines joined under the
\* "Breaking changes:" label
getSummary(packageName, newVersion, existingVersion, allEntries) ==
    LET new == getParsedSemanticVersion(newVersion)
        existing == getParsedSemanticVersion(existingVersion)
        entries == { allEntries[i] : i \in 1..Len(allEntries) }
    IN  IF new = Threw \/ existing = Threw THEN Threw
        ELSE IF \E v \in entries : getParsedSemanticVersion(v.version) = Threw THEN Threw
        ELSE LET newMajor == ValueOf(new).major
                 existingMajor == ValueOf(existing).major
                 relevant == [v \in entries |->
                     LET major == ValueOf(getParsedSemanticVersion(v.version)).major
                     IN  major > existingMajor /\ major <= newMajor]
                 relevantVersions == Filter(allEntries, relevant)
                 noted == [v \in entries |-> Truthy(v.breakingChanges)]
                 withNotes == Filter(relevantVersions, noted)
             IN  Returned([packageName |-> packageName,
                           newVersion |-> newVersion,
                           breakingChanges |->
                               [i \in 1..Len(withNotes) |-> BreakingChangeLine(withNotes[i])]])

----------------------------------------------------------------------------
(* The upgrade attempt at rest: used by the specifications of the pure      *)
(* functions, which leave the workflow alone.                               *)

NoArgs == << >>
NoInput == << >>

FlowIdle ==
    /\ pc = "idle"
    /\ args = NoArgs
    /\ calls = << >>
    /\ logged = << >>
    /\ answer = << >>
    /\ content = << >>
    /\ saveCalls = 0

----------------------------------------------------------------------------
(* Specification of the two regular-expression functions *)

InitVersion ==
    /\ input \in TextsUpTo(MaxLen)
    /\ output = NotRun
    /\ FlowIdle

CallGetParsedSemanticVersion ==
    /\ ~output.ran
    /\ output' = Ran("parse", getParsedSemanticVersion(input))
    /\ UNCHANGED <<input, flowVars>>

CallGetExtractedSemanticVersion ==
    /\ ~output.ran
    /\ output' = Ran("extract", getExtractedSemanticVersion(input))
    /\ UNCHANGED <<input, flowVars>>

NextVersion == CallGetParsedSemanticVersion \/ CallGetExtractedSemanticVersion

SpecVersion == InitVersion /\ [][NextVersion]_vars

\* a text that is, as a whole, three runs of decimal digits separated by two
\* literal dots
IsDottedTriple(t) ==
    \E la \in 1..Len(t) : \E lb \in 1..Len(t) :
        /\ la + lb + 2 < Len(t)
        /\ \A k \in 1..la : t[k] \in Digits
        /\ t[la + 1] = "."
        /\ \A k \in (la + 2)..(la + lb + 1) : t[k] \in Digits
        /\ t[la + lb + 2] = "."
        /\ \A k \in (la + lb + 3)..Len(t) : t[k] \in Digits

\* the substrings of t, as <<start, length>>, that are dotted triples
DottedTriplesIn(t) ==
    { w \in (1..Len(t)) \X (1..Len(t)) :
        /\ w[1] + w[2] - 1 <= Len(t)
        /\ IsDottedTriple(Sub(t, w[1], w[2])) }

\* C6: getParsedSemanticVersion returns a version only when the whole input is
\* three non-negative decimal integers separated by two literal dots; every
\* other input is rejected.
C6_ParseAcceptsOnlyDottedTriples ==
    (output.ran /\ output.fn = "parse" /\ IsReturned(output.ret))
        => IsDottedTriple(input)

\* C7: getExtractedSemanticVersion returns the leftmost substring of the input
\* that is a dotted triple of integers whenever the input contains one, and
\* throws for every input that contains none.
C7_ExtractLeftmostDottedTripleOrThrows ==
    (output.ran /\ output.fn = "extract") =>
        IF DottedTriplesIn(input) = {}
        THEN output.ret = Threw
        ELSE /\ IsReturned(output.ret)
             /\ \E w \in DottedTriplesIn(input) :
                    /\ \A u \in DottedTriplesIn(input) : w[1] <= u[1]
                    /\ ValueOf(output.ret) = Sub(input, w[1], w[2])

----------------------------------------------------------------------------
(* Specification of compareSemanticVersion *)

SemanticVersions == [major : 0..MaxPart, minor : 0..MaxPart, patch : 0..MaxPart]

InitCompare ==
    /\ input \in [a : SemanticVersions, b : SemanticVersions, c : SemanticVersions]
    /\ output = NotRun
    /\ FlowIdle

CallCompareSemanticVersion ==
    /\ ~output.ran
    /\ output' = Ran("compare",
                     Returned([ab |-> compareSemanticVersion(input.a, input.b),
                               ba |-> compareSemanticVersion(input.b, input.a),
                               bc |-> compareSemanticVersion(input.b, input.c),
                               ac |-> compareSemanticVersion(input.a, input.c)]))
    /\ UNCHANGED <<input, flowVars>>

NextCompare == CallCompareSemanticVersion

SpecCompare == InitCompare /\ [][NextCompare]_vars

Sign(n) == IF n < 0 THEN -1 ELSE IF n > 0 THEN 1 ELSE 0

\* the lexicographic order on (major, minor, patch)
LexLess(a, b) ==
    \/ a.major < b.major
    \/ a.major = b.major /\ a.minor < b.minor
    \/ a.major = b.major /\ a.minor = b.minor /\ a.patch < b.patch

\* C9: compareSemanticVersion is a three-way comparator of the lexicographic
\* order on (major, minor, patch): negative exactly when a is before b, zero
\* exactly when a and b are equal component by component, the sign flips when
\* the arguments are swapped, and a > b, b > c imply a > c.
C9_CompareIsThreeWayLexicographic ==
    (output.ran /\ output.fn = "compare") =>
        LET r == ValueOf(output.ret)
        IN  /\ (r.ab = 0) <=> (input.a = input.b)
            /\ (r.ab < 0) <=> LexLess(input.a, input.b)
            /\ Sign(r.ab) = -Sign(r.ba)
            /\ (r.ab > 0 /\ r.bc > 0) => r.ac > 0

\* a compared triple a > b > c whose first two members differ in the minor
\* number only
C9_Witness ==
    /\ output.ran /\ output.fn = "compare"
    /\ input.a.major = input.b.major /\ input.a.minor > input.b.minor
    /\ input.a.patch < input.b.patch
    /\ ValueOf(output.ret).ab > 0 /\ ValueOf(output.ret).bc > 0

----------------------------------------------------------------------------
(* Specification of getLargestSemanticVersion *)

\* version strings of the candidates: three distinct versions, a second
\* spelling of the largest one, and a string that is no version
CandidateVersions ==
    { <<"1", ".", "0", ".", "0">>, <<"2", ".", "5", ".", "0">>,
      <<"2", ".", "4", ".", "9">>, <<"0", "2", ".", "5", ".", "0">>,
      <<"l", "a", "t", "e", "s", "t">> }

PackageVersions == [version : CandidateVersions, name : {"p", "q"}]

InitLargest ==
    /\ input \in UNION { [1..n -> PackageVersions] : n \in 0..MaxVersions }
    /\ output = NotRun
    /\ FlowIdle

CallGetLargestSemanticVersion ==
    /\ ~output.ran
    /\ output' = Ran("largest", getLargestSemanticVersion(input))
    /\ UNCHANGED <<input, flowVars>>

NextLargest == CallGetLargestSemanticVersion

SpecLargest == InitLargest /\ [][NextLargest]_vars

AllValid(versions) ==
    \A i \in 1..Len(versions) : getParsedSemanticVersion(versions[i].version) # Threw

Parsed(pv) == ValueOf(getParsedSemanticVersion(pv.version))

\* C8: getLargestSemanticVersion returns null for an empty collection; for a
\* non-empty collection of validly versioned elements it returns the element
\* at the first position whose parsed version is greater than or equal to
\* every element's version.
C8_LargestIsFirstMaximum ==
    (output.ran /\ output.fn = "largest") =>
        /\ input = << >> => output.ret = Returned(Null)
        /\ (input # << >> /\ AllValid(input)) =>
              \E i \in 1..Len(input) :
                  /\ output.ret = Returned(Some(input[i]))
                  /\ \A j \in 1..Len(input) :
                        compareSemanticVersion(Parsed(input[i]), Parsed(input[j])) >= 0
                  /\ \A j \in 1..(i - 1) :
                        compareSemanticVersion(Parsed(input[j]), Parsed(input[i])) # 0

\* a collection in which the maximum occurs twice, under different names and
\* after a smaller version, and the first occurrence was returned
C8_Witness ==
    /\ output.ran /\ output.fn = "largest"
    /\ Len(input) = 3 /\ AllValid(input)
    /\ compareSemanticVersion(Parsed(input[1]), Parsed(input[2])) < 0
    /\ compareSemanticVersion(Parsed(input[2]), Parsed(input[3])) = 0
    /\ input[2] # input[3]
    /\ output.ret = Returned(Some(input[2]))

----------------------------------------------------------------------------
(* Specification of hasNewMajorVersion *)

\* version strings: M.0.0 and M.5.0 for every major M, and strings that are
\* no version
WellFormedTexts ==
    { getSerializedSemanticVersion([major |-> m, minor |-> n, patch |-> 0]) :
        m \in 0..MaxMajor, n \in {0, 5} }

MalformedTexts ==
    { <<"1", ".", "5">>, <<"^", "2", ".", "0", ".", "0">>, <<"n", "e", "x", "t">> }

VersionTexts == WellFormedTexts \cup MalformedTexts

InitMajor ==
    /\ input \in [latestVersion : VersionTexts,
                  existingVersion : {Null, Some(<< >>)} \cup { Some(t) : t \in VersionTexts }]
    /\ output = NotRun
    /\ FlowIdle

CallHasNewMajorVersion ==
    /\ ~output.ran
    /\ output' = Ran("hasNewMajor",
                     hasNewMajorVersion(input.latestVersion, input.existingVersion))
    /\ UNCHANGED <<input, flowVars>>

NextMajor == CallHasNewMajorVersion

SpecMajor == InitMajor /\ [][NextMajor]_vars

\* the result is true exactly when an existing version is given and the
\* parsed major of the new version is greater than that of the existing one
MajorTrueIffGreater ==
    (output.ret = Returned(TRUE)) <=>
        /\ input.existingVersion # Null
        /\ getParsedSemanticVersion(input.existingVersion[1]) # Threw
        /\ getParsedSemanticVersion(input.latestVersion) # Threw
        /\ ValueOf(getParsedSemanticVersion(input.latestVersion)).major
             > ValueOf(getParsedSemanticVersion(input.existingVersion[1])).major

\* C1 as stated: hasNewMajorVersion returns true if and only if an existing
\* version is present and the parsed major of the new version is strictly
\* greater; when the existing version is absent it returns false for every
\* new version.
C1_AbsentExistingAlwaysFalse ==
    (output.ran /\ output.fn = "hasNewMajor") =>
        /\ MajorTrueIffGreater
        /\ input.existingVersion = Null => output.ret = Returned(FALSE)

\* C1 amended: as above, but with the existing version absent the result is
\* false for every new version that getParsedSemanticVersion accepts, and the
\* call throws for a new version that it rejects.
C1_AbsentExistingFalseOrThrows ==
    (output.ran /\ output.fn = "hasNewMajor") =>
        /\ MajorTrueIffGreater
        /\ input.existingVersion = Null =>
              IF getParsedSemanticVersion(input.latestVersion) = Threw
              THEN output.ret = Threw
              ELSE output.ret = Returned(FALSE)

\* a call without an existing version and with a well-formed new version of
\* major 3, which returned false
C1_Witness ==
    /\ output.ran /\ output.fn = "hasNewMajor"
    /\ input.existingVersion = Null
    /\ input.latestVersion = <<"3", ".", "0", ".", "0">>
    /\ output.ret = Returned(FALSE)

----------------------------------------------------------------------------
(* Specification of getSummary *)

V100 == <<"1", ".", "0", ".", "0">>
V150 == <<"1", ".", "5", ".", "0">>
V200 == <<"2", ".", "0", ".", "0">>
V210 == <<"2", ".", "1", ".", "0">>
V300 == <<"3", ".", "0", ".", "0">>
Unreleased == <<"n", "e", "x", "t">>

\* breaking-changes notes: none, the empty text, and a text
Notes == { Null, Some(<< >>), Some(<<"r", "m", " ", "X">>) }

ChangelogEntries == [version : {V150, V200, V300, Unreleased}, breakingChanges : Notes]

ChangelogsUpTo(max) == UNION { [1..n -> ChangelogEntries] : n \in 0..max }

OwnPackage == "@empiriska/core"

InitSummary ==
    /\ input \in [packageName : {OwnPackage},
                  newVersion : {V200, V300},
                  existingVersion : {V100, V200, Unreleased},
                  allEntries : ChangelogsUpTo(MaxEntries)]
    /\ output = NotRun
    /\ FlowIdle

CallGetSummary ==
    /\ ~output.ran
    /\ output' = Ran("summary", getSummary(input.packageName, input.newVersion,
                                           input.existingVersion, input.allEntries))
    /\ UNCHANGED <<input, flowVars>>

NextSummary == CallGetSummary

SpecSummary == InitSummary /\ [][NextSummary]_vars

MajorOf(text) == ValueOf(getParsedSemanticVersion(text)).major

\* positions of the entries in the range (existingMajor, newMajor] that carry
\* a breaking-changes note
Qualifying(in) ==
    { i \in 1..Len(in.allEntries) :
        /\ MajorOf(in.allEntries[i].version) > MajorOf(in.existingVersion)
        /\ MajorOf(in.allEntries[i].version) <= MajorOf(in.newVersion)
        /\ Truthy(in.allEntries[i].breakingChanges) }

\* the k-th smallest member of a set of positions
Nth(positions, k) ==
    CHOOSE i \in positions : Cardinality({ j \in positions : j < i }) = k - 1

\* C2: for every changelog, in any order, the breaking-change lines of the
\* summary are exactly the entries whose parsed major m satisfies
\* existingMajor < m <= newMajor and that carry a (non-empty) breaking-changes
\* note, one line per entry, in the order of the input; entries of the
\* existing major are excluded.
C2_SummaryLinesAreRangeInInputOrder ==
    (output.ran /\ output.fn = "summary" /\ IsReturned(output.ret)) =>
        LET lines == ValueOf(output.ret).breakingChanges
            q == Qualifying(input)
        IN  /\ Len(lines) = Cardinality(q)
            /\ \A k \in 1..Len(lines) :
                  LET v == input.allEntries[Nth(q, k)]
                  IN  lines[k].text = v.version \o <<" ", "-", " ">> \o v.breakingChanges[1]

\* the end-to-end scenario: existing 1.0.0, new 3.0.0, the changelog 3.0.0,
\* 2.0.0, 1.5.0 (newest first, all with notes); two lines were rendered, 3.0.0
\* before 2.0.0
C2_Witness ==
    /\ output.ran /\ output.fn = "summary" /\ IsReturned(output.ret)
    /\ input.existingVersion = V100 /\ input.newVersion = V300
    /\ Len(input.allEntries) = 3
    /\ input.allEntries[1].version = V300 /\ input.allEntries[2].version = V200
    /\ input.allEntries[3].version = V150
    /\ \A i \in 1..3 : Truthy(input.allEntries[i].breakingChanges)
    /\ Len(ValueOf(output.ret).breakingChanges) = 2
    /\ SubSeq(ValueOf(output.ret).breakingChanges[1].text, 1, 5) = V300

----------------------------------------------------------------------------
(* The upgrade workflow: promptForNewMajor, suspended at askForBoolean, and  *)
(* the separate updateDependency.  Attempts run one after the other.        *)

CorePackage == [name |-> OwnPackage, directoryPath |-> "packages/core"]
UiPackage == [name |-> "@empiriska/ui", directoryPath |-> "packages/ui"]

PackageSets == { <<UiPackage, CorePackage>>, <<UiPackage>> }
PackageNames == { OwnPackage, "left-pad" }

Entry(v, n) == [version |-> v, breakingChanges |-> n]
RenamedY == Some(<<"m", "v", " ", "Y">>)
RemovedX == Some(<<"r", "m", " ", "X">>)

\* what getRepositoryChangelog may hand back: nothing, the changelog of the
\* end-to-end scenario, the same without its newest entry, a changelog
\* without notes, and one with an entry that is no version
RepositoryChangelogs ==
    { << >>,
      << Entry(V300, RemovedX), Entry(V200, RenamedY), Entry(V150, RemovedX) >>,
      << Entry(V200, RenamedY), Entry(V150, RemovedX) >>,
      << Entry(V300, Null), Entry(V210, Null) >>,
      << Entry(Unreleased, Null), Entry(V300, RemovedX) >> }

DependencyTypes == { "dependencies", "devDependencies" }
Targets == { "^2.0.0", "^3.0.0" }

NoDependencies == [t \in DependencyTypes |-> << >>]

\* packageJsonContent of the two packages, reduced to the dependency maps; a
\* map is a function from package names to version ranges
InitialContent ==
    [n \in { CorePackage.name, UiPackage.name } |->
        IF n = UiPackage.name
        THEN [NoDependencies EXCEPT !["dependencies"] = (OwnPackage :> "^1.0.0")]
        ELSE NoDependencies]

\* Array.prototype.find on allPackages: << >> when no package has the name
FindPackage(allPackages, packageName) ==
    LET hits == { i \in 1..Len(allPackages) : allPackages[i].name = packageName }
    IN  IF hits = {} THEN Null
        ELSE Some(allPackages[CHOOSE i \in hits : \A j \in hits : i <= j])

HasEntryOfSameMajor(versions, newVersion) ==
    \E i \in 1..Len(versions) :
        /\ getParsedSemanticVersion(versions[i].version) # Threw
        /\ getParsedSemanticVersion(newVersion) # Threw
        /\ ValueOf(getParsedSemanticVersion(versions[i].version)).major
             = ValueOf(getParsedSemanticVersion(newVersion)).major

HasEntry(versions, newVersion) ==
    \E i \in 1..Len(versions) : versions[i].version = newVersion

Init ==
    /\ input = NoInput
    /\ output = NotRun
    /\ pc = "idle"
    /\ args = NoArgs
    /\ calls = << >>
    /\ logged = << >>
    /\ answer = Null
    /\ content = InitialContent
    /\ saveCalls = 0

Attempt(allPackages, packageName, newVersion, existingVersion, versions) ==
    [allPackages |-> allPackages, packageName |-> packageName,
     newVersion |-> newVersion, existingVersion |-> existingVersion,
     changelog |-> versions]

PromptForNewMajorWithoutLog(allPackages, packageName, newVersion, existingVersion, versions) ==
    /\ pc # "awaiting"
    /\ answer' = Null
    /\ LET packageInfo == FindPackage(allPackages, packageName)
           summary == getSummary(packageName, newVersion, existingVersion, versions)
       IN  IF packageInfo = Null
           THEN /\ pc' = "threw"
                /\ args' = Attempt(allPackages, packageName, newVersion,
                                   existingVersion, << >>)
                /\ calls' = << >>
                /\ logged' = << >>
           ELSE /\ args' = Attempt(allPackages, packageName, newVersion,
                                   existingVersion, versions)
                /\ IF ~HasEntry(versions, newVersion) \/ summary = Threw
                   THEN /\ pc' = "threw"
                        /\ calls' = << "getRepositoryChangelog" >>
                        /\ logged' = << >>
                   ELSE /\ pc' = "awaiting"
                        /\ calls' = << "getRepositoryChangelog", "askForBoolean" >>
                        /\ logged' = << >>
    /\ UNCHANGED <<pureVars, content, saveCalls>>

\* promptForNewMajor up to its await, or up to the throw that ends it; versions
\* is what getRepositoryChangelog returns for the package's directory
PromptForNewMajor(allPackages, packageName, newVersion, existingVersion, versions) ==
    /\ pc # "awaiting"
    /\ answer' = Null
    /\ LET packageInfo == FindPackage(allPackages, packageName)
           summary == getSummary(packageName, newVersion, existingVersion, versions)
       IN  IF packageInfo = Null
           THEN /\ pc' = "threw"
                /\ args' = Attempt(allPackages, packageName, newVersion,
                                   existingVersion, << >>)
                /\ calls' = << >>
                /\ logged' = << >>
           ELSE /\ args' = Attempt(allPackages, packageName, newVersion,
                                   existingVersion, versions)
                /\ IF ~HasEntry(versions, newVersion) \/ summary = Threw
                   THEN /\ pc' = "threw"
                        /\ calls' = << "getRepositoryChangelog" >>
                        /\ logged' = << >>
                   ELSE /\ pc' = "awaiting"
                        /\ calls' = << "getRepositoryChangelog", "logger.log",
                                       "askForBoolean" >>
                        /\ logged' = << ValueOf(summary) >>
    /\ UNCHANGED <<pureVars, content, saveCalls>>

AskForBooleanResolvesSaving(shouldContinue) ==
    /\ pc = "awaiting"
    /\ answer' = Some(shouldContinue)
    /\ pc' = IF shouldContinue THEN "returned" ELSE "threw"
    /\ content' = IF shouldContinue
                  THEN [content EXCEPT ![UiPackage.name]["dependencies"] =
                            (args.packageName :> "^" \o "latest")]
                  ELSE content
    /\ saveCalls' = IF shouldContinue THEN saveCalls + 1 ELSE saveCalls
    /\ UNCHANGED <<pureVars, args, calls, logged>>

AskForBooleanResolvesIgnoringAnswer(shouldContinue) ==
    /\ pc = "awaiting"
    /\ answer' = Some(shouldContinue)
    /\ pc' = "returned"
    /\ UNCHANGED <<pureVars, args, calls, logged, content, saveCalls>>

\* the operator answers the prompt and promptForNewMajor resumes
AskForBooleanResolves(shouldContinue) ==
    /\ pc = "awaiting"
    /\ answer' = Some(shouldContinue)
    /\ pc' = IF shouldContinue THEN "returned" ELSE "threw"
    /\ UNCHANGED <<pureVars, args, calls, logged, content, saveCalls>>

UpdateDependency(packageJson, dependencyType, packageName, target) ==
    /\ pc # "awaiting"
    /\ saveCalls < MaxSaves
    /\ LET dependencyObject == content[packageJson][dependencyType]
           result == [k \in DOMAIN dependencyObject \cup {packageName} |->
                         IF k = packageName THEN target ELSE dependencyObject[k]]
       IN  content' = [content EXCEPT ![packageJson][dependencyType] = result]
    /\ saveCalls' = saveCalls + 1
    /\ UNCHANGED <<pureVars, attemptVars>>

Next ==
    \/ \E allPackages \in PackageSets, packageName \in PackageNames,
          newVersion \in {V200, V300}, existingVersion \in {V100, V200, Unreleased},
          versions \in RepositoryChangelogs :
            PromptForNewMajor(allPackages, packageName, newVersion,
                              existingVersion, versions)
    \/ \E shouldContinue \in BOOLEAN : AskForBooleanResolves(shouldContinue)
    \/ \E dependencyType \in DependencyTypes, target \in Targets :
            UpdateDependency(UiPackage.name, dependencyType, OwnPackage, target)

Spec == Init /\ [][Next]_vars

----------------------------------------------------------------------------
(* Properties of the upgrade workflow *)

PackageKnown ==
    \E i \in 1..Len(args.allPackages) : args.allPackages[i].name = args.packageName

NoExactEntry ==
    \A i \in 1..Len(args.changelog) : args.changelog[i].version # args.newVersion

\* C3: if the package name is not in the supplied package set, or the
\* changelog has no entry whose version string equals newVersion exactly,
\* the attempt fails with an error and askForBoolean is never invoked in it.
C3_LookupFailureThrowsBeforePrompt ==
    (pc # "idle" /\ (~PackageKnown \/ NoExactEntry)) =>
        /\ pc = "threw"
        /\ answer = Null
        /\ \A i \in 1..Len(calls) : calls[i] # "askForBoolean"

\* an attempt on a known package whose changelog has entries, none of them
\* for the new version, which has thrown
C3_Witness ==
    /\ pc = "threw"
    /\ PackageKnown
    /\ args.changelog # << >>
    /\ NoExactEntry
    /\ calls = << "getRepositoryChangelog" >>

\* C4 as stated: whenever an attempt ends in a fatal rejection or abort, the
\* breaking-change summary has already been written to logger.log in that
\* attempt.
C4_EveryFailureAfterSummary ==
    pc = "threw" => logged # << >>

\* C4 amended: whenever an attempt ends because the operator declined the
\* prompt, the breaking-change summary of that attempt has been written to
\* logger.log before the prompt was shown.
C4_RejectionAfterSummary ==
    (pc = "threw" /\ answer = Some(FALSE)) =>
        /\ logged = << ValueOf(getSummary(args.packageName, args.newVersion,
                                          args.existingVersion, args.changelog)) >>
        /\ \E i \in 1..Len(calls) : \E j \in 1..Len(calls) :
              i < j /\ calls[i] = "logger.log" /\ calls[j] = "askForBoolean"

\* the operator declined an upgrade from 1.0.0 to 3.0.0 after a summary with
\* two breaking-change lines
C4_Witness ==
    /\ pc = "threw" /\ answer = Some(FALSE)
    /\ args.existingVersion = V100 /\ args.newVersion = V300
    /\ Len(logged) = 1
    /\ Len(logged[1].breakingChanges) = 2

\* C5: no step of promptForNewMajor changes the dependency maps of any
\* package or invokes saveJsonFile, whatever the operator answers; only
\* updateDependency does.
C5_WorkflowNeverMutatesManifest ==
    [][attemptVars' # attemptVars => UNCHANGED <<content, saveCalls>>]_vars

\* the operator declined, after an earlier updateDependency, and the
\* dependency maps are those that updateDependency left
C5_Witness ==
    /\ pc = "threw" /\ answer = Some(FALSE)
    /\ saveCalls = 1
    /\ content[UiPackage.name]["devDependencies"] = (OwnPackage :> "^2.0.0")
    /\ content[UiPackage.name]["dependencies"] = (OwnPackage :> "^1.0.0")

\* C10: in one attempt the changelog lookup and the prompt are invoked at most
\* once, in the order lookup, report, prompt; an attempt that failed without
\* an answer made no call after the lookup, a negative answer ends it with an
\* error and no call after the prompt, and it returns only after the summary
\* was reported and the operator answered yes.
C10_LookupReportPromptOnce ==
    /\ calls \in { << >>, << "getRepositoryChangelog" >>,
                   << "getRepositoryChangelog", "logger.log", "askForBoolean" >> }
    /\ (pc = "threw" /\ answer = Null) =>
          (calls \in { << >>, << "getRepositoryChangelog" >> } /\ logged = << >>)
    /\ answer = Some(FALSE) => pc = "threw"
    /\ pc = "awaiting" => (answer = Null /\ Len(calls) = 3 /\ Len(logged) = 1)
    /\ pc = "returned" =>
          (answer = Some(TRUE) /\ Len(calls) = 3 /\ Len(logged) = 1)

\* an attempt that returned normally
C10_Witness ==
    /\ pc = "returned" /\ answer = Some(TRUE)
    /\ calls = << "getRepositoryChangelog", "logger.log", "askForBoolean" >>

====
